---- MODULE Spec2Model ----
(***************************************************************************)
(* The equipment backend (backend/equipment): the EquipmentDataset and     *)
(* Equipment tables, the upload_csv handler statement by statement, the    *)
(* viewset's create / update / destroy and the read handlers; and the      *)
(* upload of the desktop client (desktop-app/main.py): its upload button,  *)
(* its UploadThread and the slots the thread's signals are queued for.     *)
(*                                                                         *)
(* Abstractions: a float is an exact rational [nan, num, den] in lowest    *)
(* terms (NaN is a value of its own); a CSV cell is its text; the uploaded *)
(* file blob and the uploader are left out.                                *)
(***************************************************************************)
EXTENDS Integers, Sequences, FiniteSets, TLC

\* ---------------------------------------------------------------- bounds
\* datasets ever inserted in one run of Spec, SpecCrud, SpecRace and SpecEvict
MaxId == 6
\* uploads in one run of SpecStats, and rows of a file there
MaxStatUploads == 1
MaxRows == 2
\* the slow call of SpecEvict arrives while the next dataset id is at most this
MaxSlowId == 1
\* UploadThreads ever created in one run of SpecClient
MaxUploads == 3

\* ------------------------------------------------------ program constants
\* views.py:32,109,110,273: the retention window
Retention == 5

RequiredColumns == {"Equipment Name", "Type", "Flowrate", "Pressure", "Temperature"}
NumericColumns == {"Flowrate", "Pressure", "Temperature"}

MsgNoFile == "No file provided"
\* a variant that answers a wrong extension as it answers a missing file
MsgSameAsNoFile == "No file provided"

MsgNotCsv == "File must be a CSV"
MsgColumns == "CSV must contain columns: Equipment Name, Type, Flowrate, Pressure, Temperature"
MsgProcessing == "Error processing CSV"

\* views.py:64: the columns a failure message names: ", ".join(required_columns)
ColumnsNamed(msg) == IF msg = MsgColumns THEN RequiredColumns ELSE {}
MsgNotFound == "Not found."

\* ------------------------------------------------------------------ floats
NaN == [nan |-> TRUE, num |-> 0, den |-> 1]

RECURSIVE Gcd(_, _)
Gcd(a, b) == IF b = 0 THEN a ELSE Gcd(b, a % b)

\* the float n / d, d > 0, n >= 0
Ratio(n, d) ==
    LET g == Gcd(n, d)
    IN  [nan |-> FALSE, num |-> n \div g, den |-> d \div g]

\* the cell texts pandas' parser reads as numbers, and their values
NumTexts == {"0", "2", "5", "10", "15", "20"}

ParseNum(s) ==
    CASE s = "0" -> 0
      [] s = "2" -> 2
      [] s = "5" -> 5
      [] s = "10" -> 10
      [] s = "15" -> 15
      [] s = "20" -> 20

\* pd.read_csv: an empty cell is NaN in every column
IsNA(s) == s = ""

\* a cell of a numeric column that is neither a number nor empty makes the
\* whole column dtype object, holding strings
IsText(s) == ~IsNA(s) /\ s \notin NumTexts

\* float(row[col]) of views.py:98-100
ToFloat(s) == IF IsNA(s) THEN NaN ELSE Ratio(ParseNum(s), 1)

\* ------------------------------------------------------------- statistics
RECURSIVE SumOver(_, _, _)
SumOver(rows, col, i) ==
    IF i = 0 THEN 0
    ELSE SumOver(rows, col, i - 1)
         + (IF rows[i][col] \in NumTexts THEN ParseNum(rows[i][col]) ELSE 0)

CountValid(rows, col) == Cardinality({i \in 1..Len(rows) : ~IsNA(rows[i][col])})

\* a variant mean that skips what is not a number
MeanNeverRaises(rows, col) == FALSE

\* Series.mean() raises TypeError on a column holding strings
MeanRaises(rows, col) == \E i \in 1..Len(rows) : IsText(rows[i][col])

\* a variant: the mean by integer division
ColumnMeanFloor(rows, col) ==
    IF CountValid(rows, col) = 0 THEN NaN
    ELSE Ratio(SumOver(rows, col, Len(rows)) \div CountValid(rows, col), 1)

\* Series.mean(): skipna, NaN when nothing is left
ColumnMean(rows, col) ==
    IF CountValid(rows, col) = 0 THEN NaN
    ELSE Ratio(SumOver(rows, col, Len(rows)), CountValid(rows, col))

\* Series.value_counts().to_dict(): dropna
TypeDistribution(rows) ==
    LET labels == {rows[i]["Type"] : i \in {j \in 1..Len(rows) : ~IsNA(rows[j]["Type"])}}
    IN  [l \in labels |-> Cardinality({i \in 1..Len(rows) : rows[i]["Type"] = l})]

\* CharField.get_prep_value: str(value), so a NaN cell is stored as "nan"
ToStr(s) == IF IsNA(s) THEN "nan" ELSE s

\* ------------------------------------------------------------------ inputs
Row(n, t, f, p, te) ==
    [c \in RequiredColumns |->
        CASE c = "Equipment Name" -> n
          [] c = "Type" -> t
          [] c = "Flowrate" -> f
          [] c = "Pressure" -> p
          [] c = "Temperature" -> te]

\* the rows the inputs are built from: the two rows of the documented
\* scenario, a label differing in case only, an empty Type cell, a
\* non-numeric flow rate and an empty flow rate
RowPool ==
    { Row("Pump1", "Pump", "10", "5", "20"),
      Row("Valve1", "Valve", "0", "2", "15"),
      Row("Pump2", "pump", "5", "5", "5"),
      Row("Tank1", "", "10", "2", "20"),
      Row("Bad1", "Pump", "abc", "5", "20"),
      Row("Gap1", "Valve", "", "2", "15") }

\* equipment names in the database's collation order (Equipment.Meta.ordering)
NameOrder == <<"Bad1", "Gap1", "Pump1", "Pump2", "Tank1", "Valve1", "nan">>

NameRank(n) == CHOOSE i \in 1..Len(NameOrder) : NameOrder[i] = n

\* a variant test of the extension that ignores case
EndsWithCsvAnyCase(name) == name \in {"data.csv", "renamed.csv", "data.CSV"}

\* csv_file.name.endswith('.csv')
EndsWithCsv(name) == name \in {"data.csv", "renamed.csv"}

\* a request: request.FILES holds a file or not; the file has a name, a
\* header (the set of its columns; none for an empty file) and data rows
Req(has, name, cols, rows) ==
    [hasFile |-> has, name |-> name, columns |-> cols, rows |-> rows]

NoReq == Req(FALSE, "", {}, <<>>)

SeqsUpTo(S, n) == UNION {[1..k -> S] : k \in 0..n}

\* requests that fail before anything is stored
FailingFiles ==
    { NoReq,
      Req(TRUE, "data.txt", RequiredColumns, <<Row("Pump1", "Pump", "10", "5", "20")>>),
      Req(TRUE, "data.csv", {}, <<>>),
      Req(TRUE, "data.csv", RequiredColumns, <<Row("Bad1", "Pump", "abc", "5", "20")>>),
      Req(TRUE, "data.csv", RequiredColumns \ {"Type"},
          <<Row("Pump1", "Pump", "10", "5", "20")>>) }

\* files whose name does not end in ".csv", with contents that would be
\* stored, that lack a column, that hold text for a number, and with none
WrongNameFiles ==
    { Req(TRUE, name, content[1], content[2]) :
          name \in {"data.txt", "data.CSV", "csv", "data.csv.bak"},
          content \in { <<RequiredColumns, <<Row("Pump1", "Pump", "10", "5", "20")>>>>,
                        <<RequiredColumns \ {"Type"}, <<Row("Pump1", "Pump", "10", "5", "20")>>>>,
                        <<RequiredColumns, <<Row("Bad1", "Pump", "abc", "5", "20")>>>>,
                        <<{}, <<>>>> } }

\* the inputs of SpecStats: every file of at most MaxRows rows of the pool,
\* with a full header (and one more column) or with part of it
StatFiles ==
    { Req(TRUE, "data.csv", RequiredColumns \cup {"Notes"}, rows) :
          rows \in SeqsUpTo(RowPool, MaxRows) }
    \cup { Req(TRUE, "data.csv", cols, <<Row("Pump1", "Pump", "10", "5", "20")>>) :
          cols \in (SUBSET RequiredColumns) \ {RequiredColumns} }
    \cup FailingFiles
    \cup WrongNameFiles

\* ------------------------------------------------------------------- state
Procs == {"p1", "p2"}

VARIABLES
    datasets,   \* the EquipmentDataset table: a set of rows
    equipment,  \* the Equipment table: a set of rows, each with its dataset's id
    nextId,     \* the next EquipmentDataset id (AutoField)
    nextEqId,   \* the next Equipment id
    now,        \* the clock auto_now_add reads
    nanOk,      \* whether the database stores a NaN in a NOT NULL float column
    pc,         \* per upload_csv call: the statement it is at
    req,        \* per call: its request
    ds,         \* per call: the dataset object it created (in memory)
    todel,      \* per call: datasets_to_delete, as fetched
    resp,       \* per call: its response
    before,     \* per call: the two tables as they were when it arrived (history)
    tried,      \* per call: the ids its eviction has called delete() on (history)
    view,       \* the response of the latest request served in one step
    upload_btn,     \* desktop client: the upload button, enabled or not, and its text
    selected_file,  \* desktop client: self.selected_file, "" while the attribute is not set
    upload_thread,  \* desktop client: self.upload_thread, 0 while the attribute is not set
    threads,        \* desktop client: each UploadThread ever created and where it is
    emitted,        \* desktop client: per thread, the signals run() has emitted (history)
    events,         \* desktop client: the slot calls queued for the main thread
    dialogs,        \* desktop client: the modal dialogs open, the innermost last
    handled,        \* desktop client: the threads whose slot has run to its end (history)
    crashed         \* desktop client: the process has been aborted

vars == <<datasets, equipment, nextId, nextEqId, now, nanOk, pc, req, ds, todel, resp, before, tried, view,
          upload_btn, selected_file, upload_thread, threads, emitted, events, dialogs, handled, crashed>>

\* the state of the desktop client
client == <<upload_btn, selected_file, upload_thread, threads, emitted, events, dialogs, handled, crashed>>

\* the state of the backend
server == <<datasets, equipment, nextId, nextEqId, now, nanOk, pc, req, ds, todel, resp, before, tried, view>>

store == <<datasets, equipment>>
counters == <<nextId, nextEqId, now, nanOk>>
calls == <<pc, req, ds, todel, resp, before, tried>>

NoDataset == [id |-> 0]
NoResp == [status |-> 0]
NoView == [op |-> "none"]
NoStore == <<{}, {}>>

Ids(S) == {d.id : d \in S}

\* the rows of Equipment owned by dataset id
ItemsOf(eq, id) == {e \in eq : e.dataset = id}

\* a variant foreign key that leaves the records of a deleted dataset
KeepItems(eq, id) == eq

\* on_delete=CASCADE: Model.delete() by primary key; a missing row is no error
DeleteDataset(S, id) == {d \in S : d.id # id}
DeleteItems(eq, id) == {e \in eq : e.dataset # id}

\* order_by('-uploaded_at') / Meta.ordering: every order the database may
\* return, rows of equal timestamp in any order
RECURSIVE ByRecency(_)
ByRecency(S) ==
    IF S = {} THEN {<<>>}
    ELSE LET newest == {d \in S : \A o \in S : o.uploaded_at <= d.uploaded_at}
         IN  UNION {{<<d>> \o rest : rest \in ByRecency(S \ {d})} : d \in newest}

\* Equipment.Meta.ordering = ['equipment_name']
RECURSIVE ByName(_)
ByName(E) ==
    IF E = {} THEN {<<>>}
    ELSE LET first == {e \in E : \A o \in E : NameRank(e.equipment_name) <= NameRank(o.equipment_name)}
         IN  UNION {{<<e>> \o rest : rest \in ByName(E \ {e})} : e \in first}

\* variants: a list that is not cut, a slice that starts one row early
TakeAll(s, n) == s
DropFromNth(s, n) == SubSeq(s, n, Len(s))

\* queryset[:n] and queryset[n:]
Take(s, n) == SubSeq(s, 1, IF Len(s) < n THEN Len(s) ELSE n)
Drop(s, n) == SubSeq(s, n + 1, Len(s))

HasNaN(d) == d.avg_flowrate.nan \/ d.avg_pressure.nan \/ d.avg_temperature.nan
ItemHasNaN(e) == e.flowrate.nan \/ e.pressure.nan \/ e.temperature.nan

\* some other request is being served: only then can two rows get one timestamp
Racing(p) == \E q \in Procs \ {p} : pc[q] \notin {"idle", "done"}

\* auto_now_add: timezone.now() at the insert
Stamps(p) == IF Racing(p) THEN {now, now + 1} ELSE {now + 1}

Err(msg) == [status |-> 400, error |-> msg]

\* main.py:191-192: the button as init_ui leaves it
LabelNormal == "Upload & Analyze"
LabelBusy == "Uploading..."

ThreadIds == 1..MaxUploads

\* the desktop client after init_ui: no file selected, no thread created
ClientInit ==
    /\ upload_btn = [enabled |-> FALSE, text |-> LabelNormal]
    /\ selected_file = ""
    /\ upload_thread = 0
    /\ threads = [t \in ThreadIds |-> "none"]
    /\ emitted = [t \in ThreadIds |-> <<>>]
    /\ events = <<>>
    /\ dialogs = <<>>
    /\ handled = {}
    /\ crashed = FALSE

Init ==
    /\ ClientInit
    /\ datasets = {}
    /\ equipment = {}
    /\ nextId = 1
    /\ nextEqId = 1
    /\ now = 0
    /\ nanOk \in BOOLEAN
    /\ pc = [p \in Procs |-> "idle"]
    /\ req = [p \in Procs |-> NoReq]
    /\ ds = [p \in Procs |-> NoDataset]
    /\ todel = [p \in Procs |-> <<>>]
    /\ resp = [p \in Procs |-> NoResp]
    /\ before = [p \in Procs |-> NoStore]
    /\ tried = [p \in Procs |-> {}]
    /\ view = NoView

\* -------------------------------------------------------------- upload_csv
\* a variant with any() for all()
ColumnsOkAny(r) == \E c \in RequiredColumns : c \in r.columns

\* views.py:62: all(col in df.columns for col in required_columns)
ColumnsOk(r) == \A c \in RequiredColumns : c \in r.columns

\* views.py:41-72, everything before the first statement on the database:
\* the failure the request ends with, or "" when it gets as far as create
EarlyFailure(r) ==
    IF ~r.hasFile THEN MsgNoFile
    ELSE IF ~EndsWithCsv(r.name) THEN MsgNotCsv
    ELSE IF r.columns = {} THEN MsgProcessing
    ELSE IF ~ColumnsOk(r) THEN MsgColumns
    ELSE IF \E c \in NumericColumns : MeanRaises(r.rows, c) THEN MsgProcessing
    ELSE ""

\* views.py:69-88: the row EquipmentDataset.objects.create inserts
NewDataset(r, id, t) ==
    [id |-> id,
     name |-> r.name,
     uploaded_at |-> t,
     total_count |-> Len(r.rows),
     avg_flowrate |-> ColumnMean(r.rows, "Flowrate"),
     avg_pressure |-> ColumnMean(r.rows, "Pressure"),
     avg_temperature |-> ColumnMean(r.rows, "Temperature"),
     equipment_types |-> TypeDistribution(r.rows)]

\* views.py:92-102: the Equipment objects of the rows, ids as bulk_create
\* assigns them
NewItems(r, id, first) ==
    { [id |-> first + i - 1,
       dataset |-> id,
       equipment_name |-> ToStr(r.rows[i]["Equipment Name"]),
       type |-> ToStr(r.rows[i]["Type"]),
       flowrate |-> ToFloat(r.rows[i]["Flowrate"]),
       pressure |-> ToFloat(r.rows[i]["Pressure"]),
       temperature |-> ToFloat(r.rows[i]["Temperature"])] : i \in 1..Len(r.rows) }

\* float(row[...]) raises ValueError on text
RowRaises(r) == \E i \in 1..Len(r.rows) : \E c \in NumericColumns : IsText(r.rows[i][c])

\* the request arrives and runs up to the first database statement
\* (F: the requests of the specification, maxId: its bound on inserts)
UploadBegin(p, F, maxId) ==
    /\ pc[p] = "idle"
    /\ nextId + Cardinality({q \in Procs : pc[q] = "create"}) <= maxId
    /\ before' = [before EXCEPT ![p] = store]
    /\ \E r \in F :
        /\ req' = [req EXCEPT ![p] = r]
        /\ IF EarlyFailure(r) # ""
           THEN /\ pc' = [pc EXCEPT ![p] = "done"]
                /\ resp' = [resp EXCEPT ![p] = Err(EarlyFailure(r))]
           ELSE /\ pc' = [pc EXCEPT ![p] = "create"]
                /\ UNCHANGED resp
    /\ view' = NoView
    /\ UNCHANGED <<store, counters, client, ds, todel, tried>>

\* views.py:79-88: INSERT the dataset. A NaN in a NOT NULL float column is
\* stored by one database (PostgreSQL, nanOk) and taken for NULL by another,
\* which raises IntegrityError (SQLite); the settings are not in the source
UploadCreate(p) ==
    /\ pc[p] = "create"
    /\ \E t \in Stamps(p) :
        LET d == NewDataset(req[p], nextId, t)
        IN  IF HasNaN(d) /\ ~nanOk
            THEN /\ pc' = [pc EXCEPT ![p] = "done"]
                 /\ resp' = [resp EXCEPT ![p] = Err(MsgProcessing)]
                 /\ UNCHANGED <<store, nextId, now, ds>>
            ELSE /\ datasets' = datasets \cup {d}
                 /\ nextId' = nextId + 1
                 /\ now' = t
                 /\ ds' = [ds EXCEPT ![p] = d]
                 /\ pc' = [pc EXCEPT ![p] = "bulk"]
                 /\ UNCHANGED <<equipment, resp>>
    /\ view' = NoView
    /\ UNCHANGED <<nextEqId, nanOk, client, req, todel, before, tried>>

\* views.py:91-105: build the Equipment objects, then one bulk INSERT; the
\* foreign key fails if the dataset is gone, NOT NULL fails on a NaN
UploadBulkCreate(p) ==
    /\ pc[p] = "bulk"
    /\ LET items == NewItems(req[p], ds[p].id, nextEqId)
           fails == \/ RowRaises(req[p])
                    \/ items # {} /\ ds[p].id \notin Ids(datasets)
                    \/ ~nanOk /\ \E e \in items : ItemHasNaN(e)
       IN  IF fails
           THEN /\ pc' = [pc EXCEPT ![p] = "done"]
                /\ resp' = [resp EXCEPT ![p] = Err(MsgProcessing)]
                /\ UNCHANGED <<equipment, nextEqId>>
           ELSE /\ equipment' = equipment \cup items
                /\ nextEqId' = nextEqId + Len(req[p].rows)
                /\ pc' = [pc EXCEPT ![p] = "count"]
                /\ UNCHANGED resp
    /\ view' = NoView
    /\ UNCHANGED <<datasets, nextId, now, nanOk, client, req, ds, todel, before, tried>>

\* views.py:108-109: all_datasets.count() > 5
UploadCount(p) ==
    /\ pc[p] = "count"
    /\ pc' = [pc EXCEPT ![p] =
                IF Cardinality(datasets) > Retention THEN "fetch" ELSE "serialize"]
    /\ view' = NoView
    /\ UNCHANGED <<store, counters, client, req, ds, todel, resp, before, tried>>

\* views.py:110-111: the query all_datasets[5:] runs when the loop starts
UploadFetch(p) ==
    /\ pc[p] = "fetch"
    /\ \E order \in ByRecency(datasets) :
        LET excess == Drop(order, Retention)
        IN  /\ todel' = [todel EXCEPT ![p] = [i \in 1..Len(excess) |-> excess[i].id]]
            /\ pc' = [pc EXCEPT ![p] = IF Len(excess) = 0 THEN "serialize" ELSE "delete"]
    /\ view' = NoView
    /\ UNCHANGED <<store, counters, client, req, ds, resp, before, tried>>

\* a variant delete() that raises when the row is gone
UploadDeleteStrict(p) ==
    /\ pc[p] = "delete"
    /\ IF Head(todel[p]) \in Ids(datasets)
       THEN /\ datasets' = DeleteDataset(datasets, Head(todel[p]))
            /\ equipment' = DeleteItems(equipment, Head(todel[p]))
            /\ pc' = [pc EXCEPT ![p] = IF Len(todel[p]) = 1 THEN "serialize" ELSE "delete"]
            /\ UNCHANGED resp
       ELSE /\ pc' = [pc EXCEPT ![p] = "done"]
            /\ resp' = [resp EXCEPT ![p] = Err(MsgProcessing)]
            /\ UNCHANGED store
    /\ todel' = [todel EXCEPT ![p] = Tail(@)]
    /\ tried' = [tried EXCEPT ![p] = @ \cup {Head(todel[p])}]
    /\ view' = NoView
    /\ UNCHANGED <<counters, client, req, ds, before>>

\* views.py:111-112: ds.delete() of the next fetched dataset
UploadDelete(p) ==
    /\ pc[p] = "delete"
    /\ datasets' = DeleteDataset(datasets, Head(todel[p]))
    /\ equipment' = DeleteItems(equipment, Head(todel[p]))
    /\ todel' = [todel EXCEPT ![p] = Tail(@)]
    /\ tried' = [tried EXCEPT ![p] = @ \cup {Head(todel[p])}]
    /\ pc' = [pc EXCEPT ![p] = IF Len(todel[p]) = 1 THEN "serialize" ELSE "delete"]
    /\ view' = NoView
    /\ UNCHANGED <<counters, client, req, ds, resp, before>>

\* views.py:115-116: serializer.data reads the created object's fields and
\* queries its equipment_items; the JSON renderer refuses NaN
Full(d, items) == [data |-> d, items |-> items]

Renderable(d, items) == ~HasNaN(d) /\ \A i \in 1..Len(items) : ~ItemHasNaN(items[i])

ServerError == [status |-> 500, error |-> "Internal Server Error"]

UploadSerialize(p) ==
    /\ pc[p] = "serialize"
    /\ \E items \in ByName(ItemsOf(equipment, ds[p].id)) :
        resp' = [resp EXCEPT ![p] =
                    IF Renderable(ds[p], items)
                    THEN [status |-> 201, body |-> Full(ds[p], items)]
                    ELSE ServerError]
    /\ pc' = [pc EXCEPT ![p] = "done"]
    /\ view' = NoView
    /\ UNCHANGED <<store, counters, client, req, ds, todel, before, tried>>

\* the response is sent; the request's objects are gone
UploadReturn(p) ==
    /\ pc[p] = "done"
    /\ pc' = [pc EXCEPT ![p] = "idle"]
    /\ req' = [req EXCEPT ![p] = NoReq]
    /\ ds' = [ds EXCEPT ![p] = NoDataset]
    /\ todel' = [todel EXCEPT ![p] = <<>>]
    /\ resp' = [resp EXCEPT ![p] = NoResp]
    /\ before' = [before EXCEPT ![p] = NoStore]
    /\ tried' = [tried EXCEPT ![p] = {}]
    /\ view' = NoView
    /\ UNCHANGED <<store, counters, client>>

\* ------------------------------------------- the viewset's create/update/destroy
EmptyDict == [l \in {} |-> 0]

Zero == Ratio(0, 1)

\* models.py:13-17: the defaults of a dataset inserted without statistics
DefaultDataset(name, id, t) ==
    [id |-> id, name |-> name, uploaded_at |-> t, total_count |-> 0,
     avg_flowrate |-> Zero, avg_pressure |-> Zero, avg_temperature |-> Zero,
     equipment_types |-> EmptyDict]

NotFound == [status |-> 404, error |-> MsgNotFound]

\* ModelViewSet.create: POST /datasets/ with a name and a file
Create(maxId) ==
    /\ nextId + Cardinality({q \in Procs : pc[q] = "create"}) <= maxId
    /\ \E t \in Stamps("api") :
        LET d == DefaultDataset("data.csv", nextId, t)
        IN  /\ datasets' = datasets \cup {d}
            /\ nextId' = nextId + 1
            /\ now' = t
            /\ view' = [op |-> "create", status |-> 201, body |-> Full(d, <<>>)]
    /\ UNCHANGED <<equipment, nextEqId, nanOk, client, calls>>

\* ModelViewSet.update: PUT /datasets/<id>/ with a name and a file; the
\* statistics and the timestamp are read-only fields
Update(id) ==
    /\ IF id \in Ids(datasets)
       THEN LET d == CHOOSE x \in datasets : x.id = id
                u == [d EXCEPT !.name = "renamed.csv"]
            IN  /\ datasets' = (datasets \ {d}) \cup {u}
                /\ \E items \in ByName(ItemsOf(equipment, id)) :
                     view' = IF Renderable(u, items)
                             THEN [op |-> "update", status |-> 200, body |-> Full(u, items)]
                             ELSE [op |-> "update"] @@ ServerError
       ELSE /\ view' = [op |-> "update"] @@ NotFound
            /\ UNCHANGED datasets
    /\ UNCHANGED <<equipment, counters, client, calls>>

\* ModelViewSet.destroy: DELETE /datasets/<id>/, cascading
Destroy(id) ==
    /\ IF id \in Ids(datasets)
       THEN /\ datasets' = DeleteDataset(datasets, id)
            /\ equipment' = DeleteItems(equipment, id)
            /\ view' = [op |-> "destroy", status |-> 204]
       ELSE /\ view' = [op |-> "destroy"] @@ NotFound
            /\ UNCHANGED store
    /\ UNCHANGED <<counters, client, calls>>

\* ------------------------------------------------------------------- reads
\* views.py:242: the report lists the first 20 records
ReportRows == 20

\* round(x, k) and f"{x:.kf}" with scale = 10^k: the nearest multiple of
\* 1/scale, a tie to the even one; NaN stays NaN
Rounded(x, scale) ==
    IF x.nan THEN NaN
    ELSE LET n == x.num * scale
             q == n \div x.den
             r == n % x.den
             up == 2 * r > x.den \/ (2 * r = x.den /\ q % 2 = 1)
         IN  Ratio(IF up THEN q + 1 ELSE q, scale)

\* s[:n] for the names and labels of the inputs, none longer than 15
Truncate(s, n) == IF n >= 15 THEN s ELSE "?"

\* serializers.py:12-23 (EquipmentDatasetSerializer) on a stored dataset
FullOf(d, eq) == {Full(d, items) : items \in ByName(ItemsOf(eq, d.id))}

\* serializers.py:26-34 (DatasetSummarySerializer): no equipment_items
Summary(d) == [data |-> d]

RECURSIVE Serialized(_, _)
\* the serializations of a sequence of datasets with their items
Serialized(order, eq) ==
    IF order = <<>> THEN {<<>>}
    ELSE UNION {{<<f>> \o rest : rest \in Serialized(Tail(order), eq)} :
                    f \in FullOf(Head(order), eq)}

AllRenderable(fulls) == \A i \in 1..Len(fulls) : Renderable(fulls[i].data, fulls[i].items)

Reads == <<store, counters, client, calls>>

\* get_queryset for 'list' (views.py:31-32) and ModelViewSet.list
List ==
    /\ \E order \in ByRecency(datasets) :
         \E fulls \in Serialized(Take(order, Retention), equipment) :
            view' = IF AllRenderable(fulls)
                    THEN [op |-> "list", status |-> 200, body |-> fulls]
                    ELSE [op |-> "list"] @@ ServerError
    /\ UNCHANGED Reads

\* ModelViewSet.retrieve: GET /datasets/<id>/
Retrieve(id) ==
    /\ IF id \in Ids(datasets)
       THEN \E f \in FullOf(CHOOSE x \in datasets : x.id = id, equipment) :
              view' = IF Renderable(f.data, f.items)
                      THEN [op |-> "retrieve", status |-> 200, body |-> f]
                      ELSE [op |-> "retrieve"] @@ ServerError
       ELSE view' = [op |-> "retrieve"] @@ NotFound
    /\ UNCHANGED Reads

\* views.py:124-142
SummaryData(d) ==
    [id |-> d.id, name |-> d.name, uploaded_at |-> d.uploaded_at,
     total_count |-> d.total_count,
     statistics |-> [avg_flowrate |-> Rounded(d.avg_flowrate, 100),
                     avg_pressure |-> Rounded(d.avg_pressure, 100),
                     avg_temperature |-> Rounded(d.avg_temperature, 100)],
     equipment_types |-> d.equipment_types]

GetSummary(id) ==
    /\ IF id \in Ids(datasets)
       THEN LET d == CHOOSE x \in datasets : x.id = id
            IN  view' = IF HasNaN(d)
                        THEN [op |-> "summary"] @@ ServerError
                        ELSE [op |-> "summary", status |-> 200, body |-> SummaryData(d)]
       ELSE view' = [op |-> "summary"] @@ NotFound
    /\ UNCHANGED Reads

\* views.py:173-177, 196-201, 220-222, 241-249: the report's four tables
ReportLine(e) ==
    [name |-> Truncate(e.equipment_name, 20), type |-> Truncate(e.type, 15),
     flowrate |-> Rounded(e.flowrate, 10), pressure |-> Rounded(e.pressure, 10),
     temperature |-> Rounded(e.temperature, 10)]

Report(d, items) ==
    [info |-> [name |-> d.name, uploaded_at |-> d.uploaded_at, total |-> d.total_count],
     stats |-> [flowrate |-> Rounded(d.avg_flowrate, 100),
                pressure |-> Rounded(d.avg_pressure, 100),
                temperature |-> Rounded(d.avg_temperature, 100)],
     types |-> d.equipment_types,
     lines |-> [i \in 1..Len(Take(items, ReportRows)) |-> ReportLine(items[i])]]

\* a variant report that drops the dataset it has printed
GeneratePdfOnce(id) ==
    /\ IF id \in Ids(datasets)
       THEN /\ \E items \in ByName(ItemsOf(equipment, id)) :
                 view' = [op |-> "generate_pdf", status |-> 200,
                          body |-> Report(CHOOSE x \in datasets : x.id = id, items)]
            /\ datasets' = DeleteDataset(datasets, id)
            /\ equipment' = DeleteItems(equipment, id)
       ELSE /\ view' = [op |-> "generate_pdf"] @@ NotFound
            /\ UNCHANGED store
    /\ UNCHANGED <<counters, client, calls>>

GeneratePdf(id) ==
    /\ IF id \in Ids(datasets)
       THEN \E items \in ByName(ItemsOf(equipment, id)) :
              view' = [op |-> "generate_pdf", status |-> 200,
                       body |-> Report(CHOOSE x \in datasets : x.id = id, items)]
       ELSE view' = [op |-> "generate_pdf"] @@ NotFound
    /\ UNCHANGED Reads

\* views.py:269-275
HistoryList ==
    /\ \E order \in ByRecency(datasets) :
         LET top == Take(order, Retention)
         IN  view' = IF \E i \in 1..Len(top) : HasNaN(top[i])
                     THEN [op |-> "history"] @@ ServerError
                     ELSE [op |-> "history", status |-> 200,
                           body |-> [i \in 1..Len(top) |-> Summary(top[i])]]
    /\ UNCHANGED Reads

\* views.py:278-286
HealthCheck ==
    /\ view' = [op |-> "health", status |-> 200, body |-> "ok"]
    /\ UNCHANGED Reads

\* ------------------------------------------------------- the desktop client
\* main.py:29-41: what the HTTP call of run() ends in
RunOutcomes ==
    {"open raises", "post raises", "201 object", "201 not an object",
     "400 object", "500 not JSON"}

\* the one signal run() emits: upload_complete for a 201 whose body is a
\* JSON object; upload_error from the else branch, or from the except
\* branch when open, post, json() or the emit of a non-dict raises
SignalOf(outcome) ==
    IF outcome = "201 object" THEN "upload_complete" ELSE "upload_error"

\* no modal dialog is open: the main window takes clicks
Clickable == ~crashed /\ dialogs = <<>>

Top(stack) == stack[Len(stack)]
Pop(stack) == SubSeq(stack, 1, Len(stack) - 1)

\* main.py:326-328: select_file opens the file dialog, which runs its own
\* event loop until it is closed
SelectFile ==
    /\ Clickable
    /\ dialogs' = Append(dialogs, [kind |-> "file", thread |-> 0])
    /\ UNCHANGED <<upload_btn, selected_file, upload_thread, threads, emitted, events, handled, crashed>>
    /\ UNCHANGED server

\* main.py:328-332: the file dialog returns a path, or "" when cancelled
SelectFileReturn ==
    /\ ~crashed
    /\ dialogs # <<>>
    /\ Top(dialogs).kind = "file"
    /\ dialogs' = Pop(dialogs)
    /\ \E file_path \in {"", "data.csv"} :
         IF file_path # ""
         THEN /\ selected_file' = file_path
              /\ upload_btn' = [upload_btn EXCEPT !.enabled = TRUE]
         ELSE UNCHANGED <<selected_file, upload_btn>>
    /\ UNCHANGED <<upload_thread, threads, emitted, events, handled, crashed>>
    /\ UNCHANGED server

\* the next UploadThread
NewThread == Cardinality({t \in ThreadIds : threads[t] # "none"}) + 1

\* main.py:334-346: a click on the enabled button. The assignment at line
\* 343 drops the last reference to the previous UploadThread: destroying a
\* QThread that is still running aborts the process ("QThread: Destroyed
\* while thread is still running"); a runtime that has not collected the
\* object yet lets both threads run
UploadFile ==
    /\ Clickable
    /\ upload_btn.enabled
    /\ NewThread \in ThreadIds
    /\ IF selected_file = ""
       THEN UNCHANGED <<upload_btn, upload_thread, threads, crashed>>
       ELSE /\ upload_btn' = [enabled |-> FALSE, text |-> LabelBusy]
            /\ upload_thread' = NewThread
            /\ IF upload_thread # 0 /\ threads[upload_thread] = "running"
               THEN \/ /\ crashed' = TRUE
                       /\ threads' = [threads EXCEPT ![upload_thread] = "destroyed",
                                                      ![NewThread] = "created"]
                    \/ /\ threads' = [threads EXCEPT ![NewThread] = "running"]
                       /\ UNCHANGED crashed
               ELSE /\ threads' = [threads EXCEPT ![NewThread] = "running"]
                    /\ UNCHANGED crashed
    /\ UNCHANGED <<selected_file, emitted, events, dialogs, handled>>
    /\ UNCHANGED server

\* main.py:29-41: UploadThread.run: the HTTP call returns or raises and the
\* thread emits its signal, which is queued for the main thread
Run(t) ==
    /\ ~crashed
    /\ threads[t] = "running"
    /\ \E outcome \in RunOutcomes :
         /\ emitted' = [emitted EXCEPT ![t] = Append(@, SignalOf(outcome))]
         /\ events' = Append(events, [thread |-> t, signal |-> SignalOf(outcome)])
    /\ threads' = [threads EXCEPT ![t] = "finished"]
    /\ UNCHANGED <<upload_btn, selected_file, upload_thread, dialogs, handled, crashed>>
    /\ UNCHANGED server

\* main.py:348-379, 385-387: the event loop running (that of a dialog too)
\* calls the slot of the first queued signal: on_upload_success up to
\* msg.exec_(), on_upload_error up to QMessageBox.critical
Deliver ==
    /\ ~crashed
    /\ events # <<>>
    /\ dialogs' = Append(dialogs,
                     [kind |-> IF Head(events).signal = "upload_complete"
                               THEN "success" ELSE "error",
                      thread |-> Head(events).thread])
    /\ events' = Tail(events)
    /\ UNCHANGED <<upload_btn, selected_file, upload_thread, threads, emitted, handled, crashed>>
    /\ UNCHANGED server

\* main.py:379-383, 387-389: the message box is closed and the slot ends
SlotReturn ==
    /\ ~crashed
    /\ dialogs # <<>>
    /\ Top(dialogs).kind \in {"success", "error"}
    /\ dialogs' = Pop(dialogs)
    /\ upload_btn' = [enabled |-> TRUE, text |-> LabelNormal]
    /\ handled' = handled \cup {Top(dialogs).thread}
    /\ UNCHANGED <<selected_file, upload_thread, threads, emitted, events, crashed>>
    /\ UNCHANGED server

\* ---------------------------------------------------------- specifications
\* the ids a request may name: the stored ones and one that is not
SomeIds == Ids(datasets) \cup {nextId}

\* no upload_csv call is being served
Idle == \A q \in Procs : pc[q] = "idle"

UploadStep(p) ==
    \/ UploadCreate(p)
    \/ UploadBulkCreate(p)
    \/ UploadCount(p)
    \/ UploadFetch(p)
    \/ UploadDelete(p)
    \/ UploadSerialize(p)
    \/ UploadReturn(p)

ReadStep ==
    \/ List
    \/ HistoryList
    \/ HealthCheck
    \/ \E id \in SomeIds : Retrieve(id)
    \/ \E id \in SomeIds : GetSummary(id)
    \/ \E id \in SomeIds : GeneratePdf(id)

\* Spec: the server serving one request at a time, from an empty database.
\* Its requests: the one-row file, and the requests that fail early.
SeqFiles ==
    FailingFiles
    \cup { Req(TRUE, "data.csv", RequiredColumns, <<Row("Pump1", "Pump", "10", "5", "20")>>) }

Next ==
    \/ Idle /\ UploadBegin("p1", SeqFiles, MaxId)
    \/ UploadStep("p1")
    \/ Idle /\ Create(MaxId)
    \/ \E id \in SomeIds : Idle /\ Destroy(id)
    \/ Idle /\ ReadStep

Spec == Init /\ [][Next]_vars

\* the database as n uploads of the one-row file under Spec leave it
Stored(i) ==
    NewDataset(Req(TRUE, "data.csv", RequiredColumns,
                   <<Row("Pump1", "Pump", "10", "5", "20")>>), i, i)

StoredItems(i) ==
    NewItems(Req(TRUE, "data.csv", RequiredColumns,
                 <<Row("Pump1", "Pump", "10", "5", "20")>>), i, i)

Filled(n) ==
    /\ ClientInit
    /\ datasets = {Stored(i) : i \in 1..n}
    /\ equipment = UNION {StoredItems(i) : i \in 1..n}
    /\ nextId = n + 1
    /\ nextEqId = n + 1
    /\ now = n
    /\ nanOk \in BOOLEAN
    /\ pc = [p \in Procs |-> "idle"]
    /\ req = [p \in Procs |-> NoReq]
    /\ ds = [p \in Procs |-> NoDataset]
    /\ todel = [p \in Procs |-> <<>>]
    /\ resp = [p \in Procs |-> NoResp]
    /\ before = [p \in Procs |-> NoStore]
    /\ tried = [p \in Procs |-> {}]
    /\ view = NoView

\* SpecStats: uploads of every file of StatFiles, one request at a time,
\* into a database that holds five datasets, and the reads of the result
InitStats == Filled(Retention)

NextStats ==
    \/ Idle /\ UploadBegin("p1", StatFiles, Retention + MaxStatUploads)
    \/ UploadStep("p1")
    \/ Idle /\ ReadStep

SpecStats == InitStats /\ [][NextStats]_vars

\* SpecCrud: the viewset's create, update and destroy and the reads, one
\* request at a time, from an empty database
NextCrud ==
    \/ Create(MaxId)
    \/ \E id \in SomeIds : Update(id)
    \/ \E id \in SomeIds : Destroy(id)
    \/ ReadStep

SpecCrud == Init /\ [][NextCrud]_vars

\* SpecRace: two upload_csv calls and the reads interleaved statement by
\* statement, in a database that holds four datasets
InitRace == Filled(Retention - 1)

\* the requests of SpecRace: one that is stored, one that fails early
ConcFiles ==
    { Req(TRUE, "data.csv", RequiredColumns, <<Row("Pump1", "Pump", "10", "5", "20")>>),
      Req(TRUE, "data.csv", RequiredColumns \ {"Type"},
          <<Row("Pump1", "Pump", "10", "5", "20")>>) }

NextRace ==
    \/ \E p \in Procs : UploadBegin(p, ConcFiles, MaxId)
    \/ \E p \in Procs : UploadStep(p)
    \/ ReadStep

SpecRace == InitRace /\ [][NextRace]_vars

\* SpecEvict: from an empty database, an upload_csv call that is served
\* slowly, interleaved statement by statement with the viewset's create
\* and with upload_csv calls that arrive once five datasets are stored
EvictFiles ==
    { Req(TRUE, "data.csv", RequiredColumns, <<Row("Pump1", "Pump", "10", "5", "20")>>) }

NextEvict ==
    \/ nextId <= MaxSlowId /\ UploadBegin("p1", EvictFiles, MaxId)
    \/ UploadStep("p1")
    \/ Create(MaxId)
    \/ Cardinality(datasets) >= Retention /\ UploadBegin("p2", EvictFiles, MaxId)
    \/ UploadStep("p2")

SpecEvict == Init /\ [][NextEvict]_vars

\* SpecClient: the desktop client alone: the user's clicks, the upload
\* threads and the main thread's event loop. A thread's HTTP call returns
\* or raises, and the event loop calls the slots queued for it
NextClient ==
    \/ SelectFile
    \/ SelectFileReturn
    \/ UploadFile
    \/ \E t \in ThreadIds : Run(t)
    \/ Deliver
    \/ SlotReturn

SpecClient ==
    /\ Init
    /\ [][NextClient]_vars
    /\ \A t \in ThreadIds : WF_vars(Run(t))
    /\ WF_vars(Deliver)

\* ================================================================== claims
\* what the claims speak of, stated without the model's helpers
Succeeded(p) == pc[p] = "done" /\ resp[p].status = 201
Failed(p) == pc[p] = "done" /\ resp[p].status # 201

\* a request that gets as far as the header check
Parsed(r) == r.hasFile /\ EndsWithCsv(r.name) /\ r.columns # {}

RECURSIVE PlainSum(_, _)
PlainSum(rows, col) ==
    IF rows = <<>> THEN 0 ELSE ParseNum(Head(rows)[col]) + PlainSum(Tail(rows), col)

AllNumeric(rows) == \A i \in 1..Len(rows) : \A c \in NumericColumns : rows[i][c] \in NumTexts

\* x is the quotient s / n
IsQuotient(x, s, n) == ~x.nan /\ x.num * n = s * x.den

RECURSIVE SumValues(_)
SumValues(f) ==
    IF DOMAIN f = {} THEN 0
    ELSE LET k == CHOOSE k \in DOMAIN f : TRUE
         IN  f[k] + SumValues([j \in DOMAIN f \ {k} |-> f[j]])

\* the sum of a float field over a set of records none of which holds NaN
RECURSIVE ItemSum(_, _)
ItemSum(items, field) ==
    IF items = {} THEN 0
    ELSE LET e == CHOOSE e \in items : TRUE
         IN  e[field].num + ItemSum(items \ {e}, field)

\* the steps of an eviction, and the state an upload_csv call ends in
C1_EvictStep ==
    \A p \in Procs : pc[p] = "delete" =>
        /\ \A d \in datasets \ datasets' :
              /\ Cardinality({k \in datasets : k.uploaded_at > d.uploaded_at}) >= Retention
              /\ d.id # ds[p].id
        /\ pc'[p] = "serialize" => Cardinality(datasets') = Retention

C1_AfterUpload ==
    \A p \in Procs : pc[p] = "serialize" \/ Succeeded(p) =>
        /\ Cardinality(datasets) <= Retention
        /\ ds[p] \in datasets

\* C1: an upload_csv call evicts only datasets that five stored ones are
\* newer than, never the one it created, stops at exactly five, and ends
\* with at most five stored, its own among them: the new dataset plus the
\* four next-most-recent
C1_Retention == [][C1_EvictStep]_vars /\ []C1_AfterUpload

C1_Witness ==
    /\ pc["p1"] = "serialize"
    /\ ds["p1"].id = Retention + 1
    /\ Ids(datasets) = 2..(Retention + 1)
    /\ Ids(before["p1"][1]) = 1..Retention

\* C2: the number of stored datasets never exceeds five
C2_AtMostFive == Cardinality(datasets) <= Retention

\* C3: an upload_csv call that fails leaves both tables as they were when
\* it arrived
C3_FailureLeavesStore == \A p \in Procs : Failed(p) => store = before[p]

\* x is the mean of a field over the records, 0.0 for none
C4_MeanOf(x, items, field) ==
    IF items = {} THEN x = Zero
    ELSE /\ \A e \in items : ~e[field].nan
         /\ IsQuotient(x, ItemSum(items, field), Cardinality(items))

\* C4: every stored dataset has its full record set: as many records as
\* its total_count, and means that are those of these records
C4_FullRecordSet ==
    \A d \in datasets :
        LET items == ItemsOf(equipment, d.id)
        IN  /\ Cardinality(items) = d.total_count
            /\ C4_MeanOf(d.avg_flowrate, items, "flowrate")
            /\ C4_MeanOf(d.avg_pressure, items, "pressure")
            /\ C4_MeanOf(d.avg_temperature, items, "temperature")

\* C5: an upload_csv call whose parsed file lacks a required column ends
\* with the missing-columns failure and both tables as they were
C5_MissingColumns ==
    \A p \in Procs :
        pc[p] = "done" /\ Parsed(req[p]) /\ ~(RequiredColumns \subseteq req[p].columns)
        => resp[p] = Err(MsgColumns) /\ store = before[p]

C5_Witness ==
    /\ pc["p1"] = "done"
    /\ req["p1"].columns = RequiredColumns \ {"Flowrate"}
    /\ resp["p1"] = Err(MsgColumns)
    /\ store = before["p1"]

WellFormed(r) == Parsed(r) /\ RequiredColumns \subseteq r.columns

\* d has the count and the means of rows
C7_Created(d, rows) ==
    /\ d.total_count = Len(rows)
    /\ IsQuotient(d.avg_flowrate, PlainSum(rows, "Flowrate"), Len(rows))
    /\ IsQuotient(d.avg_pressure, PlainSum(rows, "Pressure"), Len(rows))
    /\ IsQuotient(d.avg_temperature, PlainSum(rows, "Temperature"), Len(rows))

\* C7: for a file of N >= 1 rows whose numeric cells are all numbers, the
\* dataset upload_csv creates, stores and returns has total_count N and, as
\* each mean, the sum of the N values of the column divided by N
C7_Means ==
    \A p \in Procs :
        WellFormed(req[p]) /\ Len(req[p].rows) >= 1 /\ AllNumeric(req[p].rows) =>
            /\ pc[p] # "idle"
            /\ pc[p] \notin {"idle", "create"} => C7_Created(ds[p], req[p].rows)
            /\ pc[p] = "bulk" => ds[p] \in datasets
            /\ pc[p] = "done" => Succeeded(p) /\ resp[p].body.data = ds[p]

C7_Witness ==
    /\ Succeeded("p1")
    /\ req["p1"].rows = <<Row("Pump1", "Pump", "10", "5", "20"),
                          Row("Valve1", "Valve", "0", "2", "15")>>
    /\ resp["p1"].body.data.total_count = 2
    /\ resp["p1"].body.data.avg_flowrate = [nan |-> FALSE, num |-> 5, den |-> 1]
    /\ resp["p1"].body.data.avg_pressure = [nan |-> FALSE, num |-> 7, den |-> 2]
    /\ resp["p1"].body.data.avg_temperature = [nan |-> FALSE, num |-> 35, den |-> 2]
    /\ resp["p1"].body.data \in datasets

\* C8: for a file with the full header and no data row, upload_csv succeeds
\* and the dataset has total_count 0 and the three means 0.0
C8_ZeroRows ==
    \A p \in Procs :
        pc[p] = "done" /\ WellFormed(req[p]) /\ req[p].rows = <<>> =>
            /\ Succeeded(p)
            /\ resp[p].body.data.total_count = 0
            /\ resp[p].body.data.avg_flowrate = Zero
            /\ resp[p].body.data.avg_pressure = Zero
            /\ resp[p].body.data.avg_temperature = Zero

\* C9: after a successful upload of N rows the keys of equipment_types are
\* the Type cells of the rows, an empty cell too, its values sum to N, and
\* N records are stored for the dataset
C9_TypeCounts ==
    \A p \in Procs : Succeeded(p) =>
        LET rows == req[p].rows
            types == resp[p].body.data.equipment_types
        IN  /\ DOMAIN types = {rows[i]["Type"] : i \in 1..Len(rows)}
            /\ SumValues(types) = Len(rows)
            /\ Cardinality(ItemsOf(equipment, ds[p].id)) = Len(rows)

\* the body of a list response: at most five datasets, the stored ones of
\* the greatest upload timestamps, most recent first
C10_Listed(v) == {v.body[i].data : i \in 1..Len(v.body)}

C10_MostRecentFirst(v) ==
    /\ Len(v.body) <= Retention
    /\ Len(v.body) = Cardinality(C10_Listed(v))
    /\ C10_Listed(v) \subseteq datasets
    /\ Cardinality(datasets) <= Retention => C10_Listed(v) = datasets
    /\ Cardinality(datasets) >= Retention => Len(v.body) = Retention
    /\ \A i, j \in 1..Len(v.body) :
          i < j => v.body[i].data.uploaded_at >= v.body[j].data.uploaded_at
    /\ \A d \in datasets \ C10_Listed(v) :
          \A l \in C10_Listed(v) : l.uploaded_at >= d.uploaded_at

C10_IsList(v) == v.op \in {"list", "history"} /\ v.status = 200

\* C10 as claimed: list and history_list return at most five datasets, the
\* stored ones of the greatest upload timestamps, most recent first, both
\* in summary form, without row records
C10_AllSummaries ==
    C10_IsList(view) =>
        /\ C10_MostRecentFirst(view)
        /\ \A i \in 1..Len(view.body) : "items" \notin DOMAIN view.body[i]

\* C10 as amended: the same of the datasets returned, history_list in
\* summary form, the viewset's list action with each dataset's row records
C10_ListRecent ==
    C10_IsList(view) =>
        /\ C10_MostRecentFirst(view)
        /\ view.op = "history" =>
              \A i \in 1..Len(view.body) : "items" \notin DOMAIN view.body[i]
        /\ view.op = "list" =>
              \A i \in 1..Len(view.body) :
                  /\ "items" \in DOMAIN view.body[i]
                  /\ {view.body[i].items[k] : k \in 1..Len(view.body[i].items)}
                        = ItemsOf(equipment, view.body[i].data.id)

C10_Witness ==
    /\ view.op = "history"
    /\ view.status = 200
    /\ Len(view.body) = Retention
    /\ Cardinality(datasets) > Retention
    /\ \E d \in datasets : d.total_count = 1

\* a step that removes datasets removes every record of theirs and no
\* record of a dataset that stays
C11_RemoveStep ==
    LET gone == Ids(datasets) \ Ids(datasets')
    IN  /\ \A id \in gone : ItemsOf(equipment', id) = {}
        /\ \A e \in equipment \ equipment' : e.dataset \in gone

C11_Owned == \A e \in equipment : e.dataset \in Ids(datasets)

\* C11: every stored record belongs to a dataset that is stored (its one
\* foreign key), and a step that removes a dataset, by eviction or by
\* destroy, removes all of its records and none of another dataset
C11_Cascade == [][C11_RemoveStep]_vars /\ []C11_Owned

\* a destroy among three uploads of one record each: two datasets and their
\* two records are left
C11_Witness ==
    /\ view.op = "destroy"
    /\ view.status = 204
    /\ nextId = 4
    /\ nextEqId = 4
    /\ Cardinality(datasets) = 2
    /\ Cardinality(equipment) = 2
    /\ \A d \in datasets : Cardinality(ItemsOf(equipment, d.id)) = 1

\* a delete() of a dataset that is gone changes nothing and the loop goes on
C12_NoopStep ==
    \A p \in Procs :
        /\ pc[p] = "delete"
        /\ todel'[p] # todel[p]
        /\ Head(todel[p]) \notin Ids(datasets)
        => /\ store' = store
           /\ resp'[p] = resp[p]
           /\ pc'[p] \in {"delete", "serialize"}

\* a call that ran the eviction has its success response
C12_Done == \A p \in Procs : pc[p] = "done" /\ tried[p] # {} => Succeeded(p)

\* no call is being served: at most five datasets are stored
C12_AtRest == (\A p \in Procs : pc[p] \in {"idle", "done"}) => Cardinality(datasets) <= Retention

\* C12: when two upload_csv calls evict the same dataset, the second
\* delete() is a no-op, both calls end with their success response, and at
\* most five datasets are stored once both are through
C12_DoubleDelete == [][C12_NoopStep]_vars /\ []C12_Done /\ []C12_AtRest

\* both calls have called delete() on dataset 1 and both have succeeded
C12_Witness ==
    /\ Succeeded("p1")
    /\ Succeeded("p2")
    /\ tried["p1"] = {1}
    /\ tried["p2"] = {1}
    /\ ds["p1"] \in datasets
    /\ ds["p2"] \in datasets
    /\ Cardinality(datasets) = Retention

C13_Min(a, b) == IF a < b THEN a ELSE b

\* the report r is the one of the stored dataset d
C13_ReportOf(r, d) ==
    /\ r.info.name = d.name
    /\ r.info.uploaded_at = d.uploaded_at
    /\ r.info.total = d.total_count
    /\ r.stats.flowrate = Rounded(d.avg_flowrate, 100)
    /\ r.stats.pressure = Rounded(d.avg_pressure, 100)
    /\ r.stats.temperature = Rounded(d.avg_temperature, 100)
    /\ Len(r.lines) = C13_Min(ReportRows, d.total_count)
    /\ \E items \in ByName(ItemsOf(equipment, d.id)) :
          /\ Len(r.lines) <= Len(items)
          /\ \A i \in 1..Len(r.lines) : r.lines[i] = ReportLine(items[i])

\* C13: a report of a stored dataset lists exactly min(20, total_count)
\* rows, the first records in the stored record order, and shows the total
\* count and the three means stored on the dataset (to two decimals)
C13_ReportRows ==
    view.op = "generate_pdf" /\ view.status = 200 =>
        \E d \in datasets : C13_ReportOf(view.body, d)

C14_ReadOps == {"list", "retrieve", "summary", "generate_pdf", "history", "health"}

\* a step that serves a read leaves both tables as they were
C14_ReadStep == view'.op \in C14_ReadOps => datasets' = datasets /\ equipment' = equipment

\* C14: generate_pdf, list, retrieve, summary, history_list and
\* health_check leave the stored datasets, their aggregates and their
\* records unchanged
C14_ReadsFrame == [][C14_ReadStep]_vars

\* a report of the two-row dataset has been served; it is still stored
C14_Witness ==
    /\ view.op = "generate_pdf"
    /\ view.status = 200
    /\ Len(view.body.lines) = 2
    /\ \E d \in datasets : d.total_count = 2 /\ Cardinality(ItemsOf(equipment, d.id)) = 2

\* the failure a finished call reports for each of the four conditions
C15_KindOf(p) ==
    /\ ~req[p].hasFile => resp[p] = Err(MsgNoFile)
    /\ req[p].hasFile /\ ~EndsWithCsv(req[p].name) => resp[p] = Err(MsgNotCsv)
    /\ Parsed(req[p]) /\ ~(RequiredColumns \subseteq req[p].columns) => resp[p] = Err(MsgColumns)
    /\ (\/ req[p].hasFile /\ EndsWithCsv(req[p].name) /\ req[p].columns = {}
        \/ WellFormed(req[p]) /\ ~AllNumeric(req[p].rows)
                              /\ \E i \in 1..Len(req[p].rows) : \E c \in NumericColumns :
                                    req[p].rows[i][c] \notin NumTexts \cup {""})
       => resp[p] = Err(MsgProcessing)

\* C15: a failing upload_csv call reports exactly one failure, and a
\* missing file, a wrong extension, missing required columns and a file or
\* row that cannot be parsed are reported as four pairwise distinct kinds
C15_FailureKinds ==
    /\ Cardinality({MsgNoFile, MsgNotCsv, MsgColumns, MsgProcessing}) = 4
    /\ \A p \in Procs : pc[p] = "done" =>
          /\ C15_KindOf(p)
          /\ Failed(p) => DOMAIN resp[p] = {"status", "error"}

\* a call without a file has ended with the missing-file failure
C15_Witness ==
    /\ pc["p1"] = "done"
    /\ ~req["p1"].hasFile
    /\ resp["p1"] = Err(MsgNoFile)

\* C16: when required columns are missing, the columns the failure names
\* are exactly the required columns absent from the file's header
C16_NamesMissing ==
    \A p \in Procs :
        pc[p] = "done" /\ Parsed(req[p]) /\ ~(RequiredColumns \subseteq req[p].columns) =>
            /\ "error" \in DOMAIN resp[p]
            /\ ColumnsNamed(resp[p].error) = RequiredColumns \ req[p].columns

\* C17: an upload_csv call whose file name does not end in ".csv" ends
\* with the wrong-extension failure whatever the file holds, also what
\* parsing would have refused, and both tables are as they were: nothing
\* is stored and nothing evicted
C17_WrongExtension ==
    \A p \in Procs :
        /\ pc[p] # "idle" /\ req[p].hasFile
        /\ req[p].name \notin {"data.csv", "renamed.csv"}
        => /\ pc[p] = "done"
           /\ resp[p] = Err(MsgNotCsv)
           /\ store = before[p]
           /\ ds[p] = NoDataset
           /\ tried[p] = {}

\* a file named data.CSV with no content at all has been refused for its name
C17_Witness ==
    /\ pc["p1"] = "done"
    /\ req["p1"].name = "data.CSV"
    /\ req["p1"].columns = {}
    /\ resp["p1"] = Err(MsgNotCsv)
    /\ Cardinality(datasets) = Retention

\* run() emits at most one signal, and exactly one once it has returned
C18_EmitsOnce ==
    \A t \in ThreadIds :
        /\ Len(emitted[t]) <= 1
        /\ threads[t] = "finished" => Len(emitted[t]) = 1

C18_Started(t) == threads[t] \in {"running", "finished", "destroyed"}

\* the slot of the thread's one signal has been called
C18_Delivered(t) ==
    /\ Len(emitted[t]) = 1
    /\ \/ t \in handled
       \/ \E i \in 1..Len(dialogs) : dialogs[i].thread = t

\* a slot that ends leaves the button enabled with its normal label
C18_SlotEnd == handled' # handled => upload_btn' = [enabled |-> TRUE, text |-> LabelNormal]

C19_InFlight(t) == threads[t] \in {"running", "finished", "destroyed"} /\ t \notin handled

\* C19: while an upload is in flight the upload button is disabled, and no
\* second UploadThread runs: at most one upload is in flight, and
\* self.upload_thread is the thread that runs
C19_OneInFlight ==
    /\ (\E t \in ThreadIds : C19_InFlight(t)) => ~upload_btn.enabled
    /\ Cardinality({t \in ThreadIds : C19_InFlight(t)}) <= 1
    /\ \A t \in ThreadIds : threads[t] = "running" => upload_thread = t

\* the step that builds the success response: the dataset it returns is
\* stored, and so are all its records
C20_ReturnStep ==
    \A p \in Procs :
        pc[p] = "serialize" /\ pc'[p] = "done" /\ resp'[p].status = 201 =>
            LET d == resp'[p].body.data
            IN  /\ d \in datasets'
                /\ Cardinality(ItemsOf(equipment', d.id)) = d.total_count
                /\ {resp'[p].body.items[i] : i \in 1..Len(resp'[p].body.items)}
                      = ItemsOf(equipment', d.id)

\* C20: whenever upload_csv returns success, under interleaved requests and
\* equal timestamps too, the dataset it created has not been evicted, by
\* this call or by another: it is stored with all its records
C20_CreatedSurvives == [][C20_ReturnStep]_vars

====
